---- MODULE Spec2Model ----
(***************************************************************************)
(* State-machine model of the nft_auction contract (src/src/contract.rs): *)
(* the listing / bid / withdraw engine and the minter whitelist.          *)
(*                                                                         *)
(* One action per entry point of `execute`.  Each action is the whole     *)
(* handler: it either fails (the stores are untouched, no message is      *)
(* emitted) or commits its writes and returns its messages.  `response`   *)
(* is what the handler that ran last returned.                             *)
(***************************************************************************)
EXTENDS Integers, Sequences, FiniteSets

VARIABLES
    config,     \* the Config singleton (state::Config, written at instantiate)
    minters,    \* the minter whitelist: registered address -> MinterInfo
    listings,   \* the listing bucket: key (string) -> Listing
    height,     \* env.block.height of the block being executed
    response    \* what the last handler returned: the entry point, the
                \* result (Ok or the error) and the messages emitted

vars == <<config, minters, listings, height, response>>

----------------------------------------------------------------------------
(* Bounds of the model *)

\* the sequence counter is not incremented beyond this value
MaxCount == 2
\* listings are placed under the first MaxKey keys only
MaxKey == 2
\* royalty lists of a Mint have at most this many entries
MaxRoyalties == 2

----------------------------------------------------------------------------
(* Program constants *)

DEFAULT_EXPIRATION == 1000000
AuctionDuration == 50000
ApprovalWindow == 20000
\* Decimal256::one(), with rates counted in tenths
DecimalOne == 10

----------------------------------------------------------------------------
(* Identities and inputs *)

Owner == "owner"
\* the senders of requests
Users == {"owner", "alice"}
\* the senders of PlaceListing
Sellers == {"alice"}
\* the addresses the owner registers or removes
MinterCandidates == {"alice"}
\* env.contract.address: the engine's own address, the "no bid yet" sentinel
ContractAddr == "auction"
\* the cw721 contract given at instantiate
NftAddr == "nft721"
\* a string that api.addr_validate rejects
InvalidAddr == ""

Coin(a) == [amount |-> a, denom |-> "u"]
\* the amounts of minimum bids and of bids
Amounts == {1, 2}
\* the coins of a request: a minimum bid is always given, a bid always
\* carries one coin
Coins == {Coin(a) : a \in Amounts}

TokenIds == {"GF.1"}

\* the blocks executed: a first one, the last block of an auction opened in
\* the first one, and the block after it
Heights == {1, 1 + AuctionDuration, 2 + AuctionDuration}

\* royalty rates, in tenths
Rates == {5, 6}
RoyaltyLists ==
    UNION {[1..n -> Rates] : n \in 0..MaxRoyalties}

----------------------------------------------------------------------------
(* Pure helpers *)

Digit(d) ==
    CASE d = 0 -> "0" [] d = 1 -> "1" [] d = 2 -> "2" [] d = 3 -> "3"
      [] d = 4 -> "4" [] d = 5 -> "5" [] d = 6 -> "6" [] d = 7 -> "7"
      [] d = 8 -> "8" [] d = 9 -> "9"

RECURSIVE ToString(_)
\* u64::to_string: the decimal digits of n
ToString(n) ==
    IF n < 10 THEN Digit(n) ELSE ToString(n \div 10) \o Digit(n % 10)

\* the keys a request may name
ListingIds == {ToString(n) : n \in 1..MaxKey}

\* api.addr_validate
AddrValid(a) == a # InvalidAddr

\* state::read_minter_info: the stored record, or a zero window when absent
read_minter_info(store, sender) ==
    IF sender \in DOMAIN store THEN store[sender] ELSE [expiration_time |-> 0]

\* coin_helpers::assert_sent_sufficient_coin: the sent coin when it meets or
\* exceeds the required coin, else the error InsufficientFundsSend
assert_sent_sufficient_coin(sent, required) ==
    [ok |-> sent.amount >= required.amount, coin |-> sent]

RECURSIVE SumRates(_)
\* the loop of execute_mint over msg.royalties
SumRates(royalties) ==
    IF royalties = <<>> THEN 0
    ELSE SumRates(SubSeq(royalties, 1, Len(royalties) - 1))
            + royalties[Len(royalties)]

\* variant: a royalty sum of exactly one is refused too
InvalidRoyaltyRateMut(royalties) == SumRates(royalties) >= DecimalOne

\* the royalty check of execute_mint
InvalidRoyaltyRate(royalties) == SumRates(royalties) > DecimalOne

\* variant: the identifier is built from the counter before the increment
MintTokenIdMut(count) == "GF" \o "." \o ToString(count - 1)

\* ["GF", count].join(".")
MintTokenId(count) == "GF" \o "." \o ToString(count)

Ok(op, msgs) == [op |-> op, result |-> "Ok", messages |-> msgs]
Err(op, e) == [op |-> op, result |-> e, messages |-> << >>]

----------------------------------------------------------------------------
(* Messages a handler returns *)

WasmApprove(contract, spender, token, expires) ==
    [type |-> "Approve", contract_addr |-> contract, spender |-> spender,
     token_id |-> token, expires |-> expires]

WasmTransferNft(contract, recipient, token) ==
    [type |-> "TransferNft", contract_addr |-> contract,
     recipient |-> recipient, token_id |-> token]

WasmMint(contract, token, owner) ==
    [type |-> "Mint", contract_addr |-> contract, token_id |-> token,
     owner |-> owner]

BankSend(to, coin) ==
    [type |-> "Send", to_address |-> to, amount |-> coin]

----------------------------------------------------------------------------
(* execute_place_listing *)

\* the key under which the new listing is saved
PlaceListingKey(cfg) == ToString(cfg.listing_count + 1)

\* the Config left in the store by execute_place_listing: config_state is
\* read and never written back
PlaceListingConfig(cfg) == cfg

\* variant: the auction closes when the approval expires
NewListingMut(sender, nft_contract, id, minimum_bid, h) ==
    [token_id |-> id,
     contract_addr |-> nft_contract,
     seller |-> sender,
     max_bid |-> minimum_bid,
     max_bidder |-> ContractAddr,
     block_limit |-> h + ApprovalWindow]

\* the Listing built by execute_place_listing
NewListing(sender, nft_contract, id, minimum_bid, h) ==
    [token_id |-> id,
     contract_addr |-> nft_contract,
     seller |-> sender,
     max_bid |-> minimum_bid,
     max_bidder |-> ContractAddr,
     block_limit |-> h + AuctionDuration]

\* variant: the transfer is requested before the approval
PlaceListingMsgsMut(nft_contract_address, id, h) ==
    << WasmTransferNft(nft_contract_address, ContractAddr, id),
       WasmApprove(nft_contract_address, ContractAddr, id, h + ApprovalWindow) >>

\* the two messages that lock the NFT: approve, then transfer
PlaceListingMsgs(nft_contract_address, id, h) ==
    << WasmApprove(nft_contract_address, ContractAddr, id, h + ApprovalWindow),
       WasmTransferNft(nft_contract_address, ContractAddr, id) >>

execute_place_listing(sender, nft_contract_address, id, minimum_bid) ==
    /\ IF ~AddrValid(nft_contract_address)
       THEN /\ response' = Err("PlaceListing", "Std")
            /\ UNCHANGED <<config, minters, listings, height>>
       ELSE /\ config.listing_count < MaxKey
            /\ listings' =
                  [k \in DOMAIN listings \cup {PlaceListingKey(config)} |->
                     IF k = PlaceListingKey(config)
                     THEN NewListing(sender, nft_contract_address, id,
                                     minimum_bid, height)
                     ELSE listings[k]]
            /\ config' = PlaceListingConfig(config)
            /\ response' =
                  Ok("PlaceListing",
                     PlaceListingMsgs(nft_contract_address, id, height))
            /\ UNCHANGED <<minters, height>>

PlaceListing ==
    \E sender \in Sellers, addr \in {NftAddr, InvalidAddr}, id \in TokenIds,
       minimum_bid \in Coins :
        execute_place_listing(sender, addr, id, minimum_bid)

----------------------------------------------------------------------------
(* execute_bid_listing *)

\* variant: a bid is still taken in the block after the closing block
BidAuctionEndedLate(listing, h) == listing.block_limit + 1 < h

\* variant: a bid in the closing block is rejected too
BidAuctionEndedMut(listing, h) == listing.block_limit <= h

\* the timing check of a bid
BidAuctionEnded(listing, h) == listing.block_limit < h

\* variant: no amount is required of a bid
RequiredCoinMut(listing) == Coin(0)

\* the coin a bid has to meet: the stored max_bid, which is the minimum bid
\* until a bid is accepted and the best bid afterwards
RequiredCoin(listing) == listing.max_bid

\* variant: the refund is sent without looking at who the last bidder is
BidMsgsMut(last_bidder, last_bid) == << BankSend(last_bidder, last_bid) >>

\* the refund to the previous bidder, none on the first bid
BidMsgs(last_bidder, last_bid) ==
    IF ContractAddr # last_bidder
    THEN << BankSend(last_bidder, last_bid) >>
    ELSE << >>

\* the listing as saved by an accepted bid
BidListingUpdate(listing, sender, sent_coin) ==
    [listing EXCEPT !.max_bidder = sender, !.max_bid = sent_coin]

execute_bid_listing(sender, listing_id, funds) ==
    /\ IF listing_id \notin DOMAIN listings
       THEN /\ response' = Err("BidListing", "NotFound")
            /\ UNCHANGED <<config, minters, listings, height>>
       ELSE LET listing == listings[listing_id]
                sent == assert_sent_sufficient_coin(funds, RequiredCoin(listing))
            IN  IF BidAuctionEnded(listing, height)
                THEN /\ response' = Err("BidListing", "AuctionEnded")
                     /\ UNCHANGED <<config, minters, listings, height>>
                ELSE IF ~sent.ok
                THEN /\ response' = Err("BidListing", "InsufficientFundsSend")
                     /\ UNCHANGED <<config, minters, listings, height>>
                ELSE /\ listings' =
                           [listings EXCEPT ![listing_id] =
                               BidListingUpdate(listing, sender, sent.coin)]
                     /\ response' =
                           Ok("BidListing",
                              BidMsgs(listing.max_bidder, listing.max_bid))
                     /\ UNCHANGED <<config, minters, height>>

BidListing ==
    \E sender \in Users, listing_id \in ListingIds, funds \in Coins :
        execute_bid_listing(sender, listing_id, funds)

----------------------------------------------------------------------------
(* execute_withdraw_listing *)

\* variant: a withdrawal in the closing block is let through
WithdrawNotEndedMut(listing, h) == listing.block_limit > h

\* the timing check of a withdrawal
WithdrawNotEnded(listing, h) == listing.block_limit >= h

\* variant: the listing stays in the store
RemoveListingMut(bucket, listing_id) == bucket

\* list_resolver(..).remove(key): the bucket without the listing
RemoveListing(bucket, listing_id) ==
    [k \in DOMAIN bucket \ {listing_id} |-> bucket[k]]

WithdrawMsgs(listing, listing_id) ==
    IF ContractAddr # listing.max_bidder
    THEN << WasmTransferNft(listing.contract_addr, listing.max_bidder,
                            listing_id),
            BankSend(listing.max_bidder, listing.max_bid) >>
    ELSE << WasmTransferNft(listing.contract_addr, listing.seller,
                            listing_id) >>

execute_withdraw_listing(listing_id) ==
    /\ IF listing_id \notin DOMAIN listings
       THEN /\ response' = Err("WithdrawListing", "NotFound")
            /\ UNCHANGED <<config, minters, listings, height>>
       ELSE LET listing == listings[listing_id]
            IN  IF WithdrawNotEnded(listing, height)
                THEN /\ response' = Err("WithdrawListing", "AuctionNotEnded")
                     /\ UNCHANGED <<config, minters, listings, height>>
                ELSE /\ listings' = RemoveListing(listings, listing_id)
                     /\ response' =
                           Ok("WithdrawListing",
                              WithdrawMsgs(listing, listing_id))
                     /\ UNCHANGED <<config, minters, height>>

WithdrawListing ==
    \E listing_id \in ListingIds :
        execute_withdraw_listing(listing_id)

----------------------------------------------------------------------------
(* update_minters, unregister_minter, execute_mint *)

\* variant: the sender is not compared with the owner
NotOwnerMut(sender, cfg) == FALSE

\* the owner check of update_minters and unregister_minter
NotOwner(sender, cfg) == sender # cfg.owner

\* store_minters: the whitelist after a registration
StoreMinter(store, minter) ==
    [a \in DOMAIN store \cup {minter} |->
        IF a = minter THEN [expiration_time |-> DEFAULT_EXPIRATION]
        ELSE store[a]]

\* remove_minter: the whitelist after a removal
RemoveMinterFrom(store, minter) ==
    [a \in DOMAIN store \ {minter} |-> store[a]]

update_minters(sender, minter) ==
    /\ UNCHANGED <<config, listings, height>>
    /\ IF NotOwner(sender, config)
       THEN response' = Err("UpdateMinter", "Unauthorized") /\ UNCHANGED minters
       ELSE IF ~AddrValid(minter)
       THEN response' = Err("UpdateMinter", "Std") /\ UNCHANGED minters
       ELSE /\ minters' = StoreMinter(minters, minter)
            /\ response' = Ok("UpdateMinter", << >>)

UpdateMinter ==
    \E sender \in Users, minter \in MinterCandidates \cup {InvalidAddr} :
        update_minters(sender, minter)

unregister_minter(sender, minter) ==
    /\ UNCHANGED <<config, listings, height>>
    /\ IF NotOwner(sender, config)
       THEN response' = Err("RemoveMinter", "Unauthorized") /\ UNCHANGED minters
       ELSE IF ~AddrValid(minter)
       THEN response' = Err("RemoveMinter", "Std") /\ UNCHANGED minters
       ELSE /\ minters' = RemoveMinterFrom(minters, minter)
            /\ response' = Ok("RemoveMinter", << >>)

RemoveMinter ==
    \E sender \in Users, minter \in MinterCandidates \cup {InvalidAddr} :
        unregister_minter(sender, minter)

\* variant: the whitelist is not consulted
MintUnauthorizedMut(minter_info) == FALSE

\* the whitelist check of execute_mint
MintUnauthorized(minter_info) == minter_info.expiration_time = 0

\* the Config stored by a successful execute_mint
MintConfig(cfg) == [cfg EXCEPT !.listing_count = cfg.listing_count + 1]

\* variant: the counter is stored before the checks are made
MintRejectedConfigMut(cfg) ==
    [cfg EXCEPT !.listing_count = cfg.listing_count + 1]

\* the Config in the store when execute_mint returns an error: both checks
\* come before read_config and store_config
MintRejectedConfig(cfg) == cfg

MintMsgs(cfg, owner) ==
    << WasmMint(cfg.nft_contract_address, MintTokenId(cfg.listing_count),
                owner) >>

execute_mint(sender, owner, royalties) ==
    /\ UNCHANGED <<minters, listings, height>>
    /\ IF MintUnauthorized(read_minter_info(minters, sender))
       THEN /\ response' = Err("Mint", "Unauthorized")
            /\ config' = MintRejectedConfig(config)
       ELSE IF InvalidRoyaltyRate(royalties)
       THEN /\ response' = Err("Mint", "InvalidRoyaltyRate")
            /\ config' = MintRejectedConfig(config)
       ELSE /\ config.listing_count < MaxCount
            /\ config' = MintConfig(config)
            /\ response' = Ok("Mint", MintMsgs(config', owner))

Mint ==
    \E sender \in Users, royalties \in RoyaltyLists :
        execute_mint(sender, sender, royalties)

----------------------------------------------------------------------------
(* query: ResolveListing *)

\* the answer of the query for a stored listing
ResolveListingResponse(listing) ==
    [token_id |-> listing.token_id,
     contract_addr |-> listing.contract_addr,
     seller |-> listing.seller,
     max_bid |-> listing.max_bid,
     max_bidder |-> listing.max_bidder,
     block_limit |-> listing.block_limit]

\* may_load gives None for a missing key and resp.unwrap() panics on it; a
\* query writes nothing
query_list_resolver(id) ==
    /\ UNCHANGED <<config, minters, listings, height>>
    /\ IF id \in DOMAIN listings
       THEN response' = [op |-> "ResolveListing", result |-> "Ok",
                         messages |-> << >>,
                         data |-> ResolveListingResponse(listings[id])]
       ELSE response' = [op |-> "ResolveListing", result |-> "Panic",
                         messages |-> << >>]

ResolveListing ==
    \E id \in ListingIds : query_list_resolver(id)

----------------------------------------------------------------------------
(* The chain *)

\* a later block is executed
NextBlock ==
    /\ \E h \in Heights : h > height /\ height' = h
    /\ response' = Ok("NextBlock", << >>)
    /\ UNCHANGED <<config, minters, listings>>

\* the state left by instantiate, sent by Owner
Init ==
    /\ config = [listing_count |-> 0, owner |-> Owner,
                 expiration_time |-> DEFAULT_EXPIRATION,
                 nft_contract_address |-> NftAddr]
    /\ minters = << >>
    /\ listings = << >>
    /\ height = 1
    /\ response = Ok("Instantiate", << >>)

Next ==
    \/ PlaceListing
    \/ BidListing
    \/ WithdrawListing
    \/ Mint
    \/ UpdateMinter
    \/ RemoveMinter
    \/ ResolveListing
    \/ NextBlock

Spec == Init /\ [][Next]_vars

----------------------------------------------------------------------------
(* Properties.  A step is recognised by the handler that produced it: the  *)
(* action formula of the handler with its inputs, or the entry point named *)
(* in the response it returned.                                            *)

store == <<config, minters, listings, height>>

\* the handler named `op` returned Ok in this step
Succeeded(op) == response'.op = op /\ response'.result = "Ok"

\* C1: a successful WithdrawListing of a listing with a real best bidder
\* emits exactly two messages: the transfer of the NFT to the best bidder and
\* a bank send of the best bid whose recipient is the seller.
C1_WithdrawPaysSeller ==
    [][\A k \in ListingIds :
        (Succeeded("WithdrawListing") /\ execute_withdraw_listing(k)
            /\ listings[k].max_bidder # ContractAddr)
        => /\ Len(response'.messages) = 2
           /\ response'.messages[1].type = "TransferNft"
           /\ response'.messages[1].recipient = listings[k].max_bidder
           /\ response'.messages[2] =
                 BankSend(listings[k].seller, listings[k].max_bid)]_vars

\* C2: an accepted bid never lowers the stored best bid; the first accepted
\* bid on a listing emits no refund, every later one emits exactly one bank
\* send, to the previous best bidder, of the previous best bid.
C2_BidRefundsPrevious ==
    [][\A sender \in Users, k \in ListingIds, funds \in Coins :
        (Succeeded("BidListing") /\ execute_bid_listing(sender, k, funds))
        => /\ listings'[k].max_bid.amount >= listings[k].max_bid.amount
           /\ listings[k].max_bidder = ContractAddr
                => response'.messages = << >>
           /\ listings[k].max_bidder # ContractAddr
                => response'.messages =
                     << BankSend(listings[k].max_bidder, listings[k].max_bid) >>
       ]_vars

\* a second bid was accepted and refunded the first bidder
C2_Witness ==
    /\ response.op = "BidListing" /\ response.result = "Ok"
    /\ Len(response.messages) = 1
    /\ response.messages[1].type = "Send"

\* C3: every successful PlaceListing and every successful Mint increases the
\* sequence counter by exactly one.
C3_CounterStepsByOne ==
    [][(Succeeded("PlaceListing") \/ Succeeded("Mint"))
        => config'.listing_count = config.listing_count + 1]_vars

\* C4: an existing listing keeps its token, custodian, seller and closing
\* height; its best bid and bidder change only by an accepted bid on its
\* key; it is removed only by a successful withdrawal of its key after the
\* closing height.  No other request touches it.
C4_ListingFrame ==
    [][\A k \in DOMAIN listings :
        \/ k \in DOMAIN listings' /\ listings'[k] = listings[k]
        \/ /\ k \in DOMAIN listings'
           /\ Succeeded("BidListing")
           /\ \E sender \in Users, funds \in Coins :
                 execute_bid_listing(sender, k, funds)
           /\ listings'[k].token_id = listings[k].token_id
           /\ listings'[k].contract_addr = listings[k].contract_addr
           /\ listings'[k].seller = listings[k].seller
           /\ listings'[k].block_limit = listings[k].block_limit
        \/ /\ k \notin DOMAIN listings'
           /\ Succeeded("WithdrawListing")
           /\ execute_withdraw_listing(k)
           /\ height > listings[k].block_limit]_vars

\* C5: a bid on an existing listing at a height above its closing height
\* fails with AuctionEnded, changes nothing and emits nothing; a bid at the
\* closing height is not rejected for timing.
C5_BidAfterCloseRejected ==
    [][\A sender \in Users, k \in ListingIds, funds \in Coins :
        (response'.op = "BidListing" /\ k \in DOMAIN listings
            /\ execute_bid_listing(sender, k, funds))
        => /\ height > listings[k].block_limit
                => /\ response'.result = "AuctionEnded"
                   /\ response'.messages = << >>
                   /\ UNCHANGED store
           /\ height = listings[k].block_limit
                => response'.result # "AuctionEnded"]_vars

\* a bid came after the close of its auction
C5_Witness ==
    /\ response.op = "BidListing" /\ response.result = "AuctionEnded"
    /\ \E k \in DOMAIN listings : listings[k].block_limit < height

\* C6: a withdrawal of an existing listing at a height at or below its
\* closing height fails with AuctionNotEnded, leaves the listing as it is and
\* emits nothing.
C6_WithdrawBeforeCloseRejected ==
    [][\A k \in ListingIds :
        (response'.op = "WithdrawListing" /\ k \in DOMAIN listings
            /\ height <= listings[k].block_limit
            /\ execute_withdraw_listing(k))
        => /\ response'.result = "AuctionNotEnded"
           /\ response'.messages = << >>
           /\ listings' = listings]_vars

\* a withdrawal came in the closing block of an auction
C6_Witness ==
    /\ response.op = "WithdrawListing" /\ response.result = "AuctionNotEnded"
    /\ DOMAIN listings # {}
    /\ \A k \in DOMAIN listings : listings[k].block_limit = height

\* C7 as stated: every bid below the required coin fails with
\* InsufficientFundsSend and changes nothing.
C7_LowBidAlwaysInsufficient ==
    [][\A sender \in Users, k \in ListingIds, funds \in Coins :
        (response'.op = "BidListing" /\ k \in DOMAIN listings
            /\ funds.amount < listings[k].max_bid.amount
            /\ execute_bid_listing(sender, k, funds))
        => /\ response'.result = "InsufficientFundsSend"
           /\ UNCHANGED store]_vars

\* C7 amended: a bid on an existing listing, at a height not above its
\* closing height, below the required coin (the stored best bid, which is the
\* minimum bid until a bid is accepted) fails with InsufficientFundsSend,
\* changes nothing and emits nothing; such a bid equal to the required coin
\* is accepted.
C7_LowBidInTimeInsufficient ==
    [][\A sender \in Users, k \in ListingIds, funds \in Coins :
        (response'.op = "BidListing" /\ k \in DOMAIN listings
            /\ height <= listings[k].block_limit
            /\ execute_bid_listing(sender, k, funds))
        => /\ funds.amount < listings[k].max_bid.amount
                => /\ response'.result = "InsufficientFundsSend"
                   /\ response'.messages = << >>
                   /\ UNCHANGED store
           /\ funds.amount = listings[k].max_bid.amount
                => /\ response'.result = "Ok"
                   /\ listings'[k].max_bid = funds
                   /\ listings'[k].max_bidder = sender]_vars

\* a bid was turned down for its amount
C7_Witness ==
    response.op = "BidListing" /\ response.result = "InsufficientFundsSend"

\* C8: a successful WithdrawListing of a listing that never got a bid emits
\* exactly one message, the transfer of the listing's NFT to its seller, and
\* no bank send.
C8_WithdrawUnsoldReturnsAsset ==
    [][\A k \in ListingIds :
        (Succeeded("WithdrawListing") /\ execute_withdraw_listing(k)
            /\ listings[k].max_bidder = ContractAddr)
        => response'.messages =
              << WasmTransferNft(listings[k].contract_addr,
                                 listings[k].seller,
                                 listings[k].token_id) >>]_vars

\* C9: a successful PlaceListing at height h stores, under the key of the
\* counter plus one, a listing that closes at h + 50000, has the contract as
\* best bidder, the given minimum bid as best bid and the sender as seller.
C9_PlacedListing ==
    [][\A sender \in Sellers, addr \in {NftAddr, InvalidAddr},
          id \in TokenIds, minimum_bid \in Coins :
        (Succeeded("PlaceListing")
            /\ execute_place_listing(sender, addr, id, minimum_bid))
        => LET k == ToString(config.listing_count + 1)
           IN  /\ k \in DOMAIN listings'
               /\ listings'[k].block_limit = height + 50000
               /\ listings'[k].max_bidder = ContractAddr
               /\ listings'[k].max_bid = minimum_bid
               /\ listings'[k].seller = sender]_vars

\* a listing was placed in this block
C9_Witness ==
    /\ response.op = "PlaceListing" /\ response.result = "Ok"
    /\ \E k \in DOMAIN listings :
          /\ listings[k].block_limit = height + 50000
          /\ listings[k].max_bidder = ContractAddr

\* the royalty lists whose rates sum to at most one
ValidRoyaltyLists ==
    UNION {IF SumRates(r) <= 10 THEN {r} ELSE {} : r \in RoyaltyLists}

\* the royalty lists whose rates sum to more than one
ExcessRoyaltyLists == RoyaltyLists \ ValidRoyaltyLists

\* C10: a Mint with a valid royalty sum succeeds exactly when its sender has
\* a MinterInfo record and fails with Unauthorized otherwise; an address has
\* a record exactly when the last successful UpdateMinter or RemoveMinter
\* naming it was an UpdateMinter.
C10_MintNeedsRegistration ==
    [][/\ response'.op = "Mint"
            => \A sender \in Users, royalties \in ValidRoyaltyLists :
                  \/ /\ response'.result = "Ok" <=> sender \in DOMAIN minters
                     /\ sender \notin DOMAIN minters
                          => response'.result = "Unauthorized"
                  \/ ~execute_mint(sender, sender, royalties)
       /\ \A x \in Users :
            x \in DOMAIN minters'
            <=> \/ Succeeded("UpdateMinter") /\ update_minters(config.owner, x)
                \/ /\ x \in DOMAIN minters
                   /\ ~(Succeeded("RemoveMinter")
                            /\ unregister_minter(config.owner, x))]_vars

\* a registered minter minted
C10_Witness ==
    /\ response.op = "Mint" /\ response.result = "Ok"
    /\ DOMAIN minters # {}

\* C11: a Mint sent by a registered minter succeeds when its royalty rates
\* sum to at most one (exactly one and the empty list included) and fails
\* with InvalidRoyaltyRate when the sum is above one, which happens with
\* every single rate at most one.
C11_RoyaltySumDecides ==
    [][response'.op = "Mint"
          => \A sender \in DOMAIN minters :
                /\ \A royalties \in ValidRoyaltyLists :
                      \/ response'.result = "Ok"
                      \/ ~execute_mint(sender, sender, royalties)
                /\ \A royalties \in ExcessRoyaltyLists :
                      \/ /\ response'.result = "InvalidRoyaltyRate"
                         /\ \A i \in DOMAIN royalties :
                               royalties[i] <= DecimalOne
                      \/ ~execute_mint(sender, sender, royalties)]_vars

\* a registered minter was refused for its royalty sum
C11_Witness ==
    /\ response.op = "Mint" /\ response.result = "InvalidRoyaltyRate"
    /\ DOMAIN minters # {}
    /\ \E royalties \in ValidRoyaltyLists : SumRates(royalties) = DecimalOne

\* C12: UpdateMinter and RemoveMinter succeed only for the owner recorded by
\* instantiate; any other sender gets Unauthorized and the whitelist stays
\* as it was; no step changes the owner.
C12_OnlyOwnerManagesMinters ==
    [][/\ response'.op \in {"UpdateMinter", "RemoveMinter"}
            => \A sender \in Users,
                  minter \in MinterCandidates \cup {InvalidAddr} :
                  (update_minters(sender, minter)
                      \/ unregister_minter(sender, minter))
                  => /\ response'.result = "Ok" => sender = Owner
                     /\ sender # Owner
                          => /\ response'.result = "Unauthorized"
                             /\ minters' = minters
       /\ config.owner = Owner
       /\ config'.owner = config.owner]_vars

\* a sender other than the owner was refused while a minter is registered
C12_Witness ==
    /\ response.op \in {"UpdateMinter", "RemoveMinter"}
    /\ response.result = "Unauthorized"
    /\ minters # << >>

\* C13: ResolveListing on a key without a listing returns a not-found error
\* and does not crash; on a key with a listing it returns the six fields of
\* that listing.
C13_ResolveListingTotal ==
    [][response'.op = "ResolveListing"
          => \A id \in ListingIds :
                query_list_resolver(id)
                => /\ id \notin DOMAIN listings
                        => response'.result = "NotFound"
                   /\ id \in DOMAIN listings
                        => /\ response'.result = "Ok"
                           /\ response'.data =
                                 ResolveListingResponse(listings[id])]_vars

\* C14: the TransferNft of a successful WithdrawListing, sold or unsold,
\* names the token_id stored in the listing and is sent to the contract_addr
\* stored in the listing.
C14_WithdrawReleasesEscrowedAsset ==
    [][\A k \in ListingIds :
        (Succeeded("WithdrawListing") /\ execute_withdraw_listing(k))
        => /\ response'.messages[1].type = "TransferNft"
           /\ response'.messages[1].token_id = listings[k].token_id
           /\ response'.messages[1].contract_addr =
                 listings[k].contract_addr]_vars

\* the amounts of the BankMsg::Send messages of a response
RECURSIVE SumSent(_)
SumSent(msgs) ==
    IF msgs = << >> THEN 0
    ELSE (IF Head(msgs).type = "Send" THEN Head(msgs).amount.amount ELSE 0)
         + SumSent(Tail(msgs))

\* the best bids of the listings of a bucket that have a bidder
RECURSIVE SumBestBids(_, _)
SumBestBids(bucket, keys) ==
    IF keys = {} THEN 0
    ELSE LET k == CHOOSE x \in keys : TRUE
         IN (IF bucket[k].max_bidder # ContractAddr
             THEN bucket[k].max_bid.amount ELSE 0)
            + SumBestBids(bucket, keys \ {k})

\* the funds owed to the bidders of the listings in the store
Escrowed(bucket) == SumBestBids(bucket, DOMAIN bucket)

\* C15: escrow conservation, step by step: the funds a step takes in (the
\* coin of an accepted bid) less the funds it sends out (its BankMsg::Send
\* messages) are the change of the sum of the best bids of the stored
\* listings that have a bidder. The sums are both zero after instantiate,
\* so they are equal after every sequence exactly when every step keeps
\* this balance.
C15_EscrowConserved ==
    [][/\ Succeeded("BidListing")
            => \A sender \in Users, k \in ListingIds, funds \in Coins :
                  execute_bid_listing(sender, k, funds)
                  => funds.amount - SumSent(response'.messages)
                        = Escrowed(listings') - Escrowed(listings)
       /\ ~Succeeded("BidListing")
            => 0 - SumSent(response'.messages)
                  = Escrowed(listings') - Escrowed(listings)]_vars

\* C16: for a stored listing the bidding and the withdrawal windows split
\* the heights in two: a bid passes the timing check exactly at heights up
\* to block_limit, a withdrawal exactly at heights above it, so a bid is
\* never accepted at a height at which the listing can be withdrawn.
C16_WindowsDisjoint ==
    [][/\ response'.op = "BidListing"
            => \A sender \in Users, k \in DOMAIN listings, funds \in Coins :
                  execute_bid_listing(sender, k, funds)
                  => /\ response'.result # "AuctionEnded"
                          <=> height <= listings[k].block_limit
                     /\ response'.result = "Ok"
                          => ~(height > listings[k].block_limit)
       /\ response'.op = "WithdrawListing"
            => \A k \in DOMAIN listings :
                  execute_withdraw_listing(k)
                  => /\ response'.result # "AuctionNotEnded"
                          <=> height > listings[k].block_limit
                     /\ response'.result = "Ok"
                          <=> height > listings[k].block_limit]_vars

\* a bid was accepted in the closing block of its listing
C16_Witness ==
    /\ response.op = "BidListing" /\ response.result = "Ok"
    /\ \E k \in DOMAIN listings :
          /\ listings[k].block_limit = height
          /\ listings[k].max_bidder # ContractAddr

\* C17: a successful Mint emits exactly one message, a Mint sent to the
\* configured nft_contract_address whose token_id is "GF." followed by the
\* counter after its increment; no two successful Mints emit the same
\* token_id: every Mint raises the counter, no step lowers it, and the
\* identifier of a Mint differs from the identifier of every counter value
\* reached before it.
C17_MintIdsFresh ==
    [][/\ Succeeded("Mint")
            => /\ config'.listing_count > config.listing_count
               /\ Len(response'.messages) = 1
               /\ response'.messages[1].type = "Mint"
               /\ response'.messages[1].contract_addr =
                     config.nft_contract_address
               /\ response'.messages[1].token_id =
                     "GF." \o ToString(config'.listing_count)
               /\ \A earlier \in 1..config.listing_count :
                     "GF." \o ToString(earlier)
                        # response'.messages[1].token_id
       /\ config'.listing_count >= config.listing_count]_vars

\* a second Mint was emitted, for the second identifier
C17_Witness ==
    /\ response.op = "Mint" /\ response.result = "Ok"
    /\ response.messages[1].token_id = "GF.2"
    /\ config.listing_count = 2

\* C18: a failing Mint, a failing UpdateMinter or RemoveMinter, and a
\* BidListing or WithdrawListing that names a key without a listing leave
\* the counter, the listings and the whitelist as they were and emit no
\* message.
C18_FailuresChangeNothing ==
    [][/\ (response'.op \in {"Mint", "UpdateMinter", "RemoveMinter"}
              /\ response'.result # "Ok")
            => /\ config' = config /\ listings' = listings
               /\ minters' = minters
               /\ response'.messages = << >>
       /\ response'.op \in {"BidListing", "WithdrawListing"}
            => \A k \in ListingIds \ DOMAIN listings :
                  (\/ execute_withdraw_listing(k)
                   \/ \E sender \in Users, funds \in Coins :
                         execute_bid_listing(sender, k, funds))
                  => /\ response'.result # "Ok"
                     /\ config' = config /\ listings' = listings
                     /\ minters' = minters
                     /\ response'.messages = << >>]_vars

\* a Mint was refused after an earlier Mint had raised the counter
C18_Witness ==
    /\ response.op = "Mint" /\ response.result # "Ok"
    /\ config.listing_count > 0

\* C19: a successful PlaceListing at height h emits exactly two messages to
\* the given NFT contract, in this order: an Approve of the contract as
\* spender of the token that expires at height h + 20000, then a TransferNft
\* of the token to the contract; the expiry is below the block_limit
\* h + 50000 of the listing.
C19_PlaceListingIntents ==
    [][Succeeded("PlaceListing")
          => \A sender \in Sellers, id \in TokenIds, minimum_bid \in Coins :
                execute_place_listing(sender, NftAddr, id, minimum_bid)
                => /\ response'.messages =
                        << [type |-> "Approve", contract_addr |-> NftAddr,
                            spender |-> ContractAddr, token_id |-> id,
                            expires |-> height + 20000],
                           [type |-> "TransferNft", contract_addr |-> NftAddr,
                            recipient |-> ContractAddr, token_id |-> id] >>
                   /\ listings'[PlaceListingKey(config)].block_limit
                        = height + 50000
                   /\ response'.messages[1].expires
                        < listings'[PlaceListingKey(config)].block_limit]_vars

\* a listing was placed and its two messages emitted
C19_Witness ==
    /\ response.op = "PlaceListing" /\ response.result = "Ok"
    /\ Len(response.messages) = 2
    /\ response.messages[1].type = "Approve"
    /\ response.messages[1].expires = height + 20000

\* C20: a listing is settled at most once. A successful WithdrawListing
\* removes exactly the listing it names, and only a successful PlaceListing
\* adds a listing, one at a time, so withdrawals never outnumber
\* placements; once the key is gone a BidListing or WithdrawListing that
\* names it fails with NotFound.
C20_SettledOnce ==
    [][/\ Succeeded("WithdrawListing")
            => \A k \in ListingIds :
                  execute_withdraw_listing(k)
                  => /\ k \in DOMAIN listings
                     /\ DOMAIN listings' = DOMAIN listings \ {k}
       /\ DOMAIN listings' \ DOMAIN listings # {}
            => /\ Succeeded("PlaceListing")
               /\ Cardinality(DOMAIN listings' \ DOMAIN listings) = 1
       /\ response'.op \in {"BidListing", "WithdrawListing"}
            => \A k \in ListingIds \ DOMAIN listings :
                  (\/ execute_withdraw_listing(k)
                   \/ \E sender \in Users, funds \in Coins :
                         execute_bid_listing(sender, k, funds))
                  => response'.result = "NotFound"]_vars

\* a listing was withdrawn and its key is free again
C20_Witness ==
    /\ response.op = "WithdrawListing" /\ response.result = "Ok"
    /\ ListingIds \ DOMAIN listings # {}
    /\ Len(response.messages) >= 1

====
